---- MODULE Spec2Model ----
(***************************************************************************)
(* Model of the lexical core of jam-materials-handler:                     *)
(*   - parseTemplateVariables, the {{ name | default }} scanner            *)
(*   - the markdown-it inline rules for ${comment ..}, ${issue ..},        *)
(*     ${status ..} and ${breadcrumbs}                                     *)
(*                                                                         *)
(* A JavaScript string is a sequence of one-character strings.  The only   *)
(* elements that are longer than one character are the two halves of the   *)
(* failed-substitution span, which hold no brace, backslash or pipe and no *)
(* whitespace at their ends, so the scanner and trim() treat each of them  *)
(* like one ordinary character.                                            *)
(***************************************************************************)
EXTENDS Integers, Sequences, FiniteSets, TLC

VARIABLES
    \* ---- parseTemplateVariables -------------------------------------
    content,        \* the argument
    variables,      \* templateConfig.variables (own properties)
    i,              \* loop index (0-based)
    phase,          \* outside / insideName / insideDefault
    lastChar,       \* pending unescaped character, "" when none
    output,
    name,
    defaultValue,
    calls,          \* number of addValue() invocations so far
    warned,         \* names passed to console.warn, in order
    pc,             \* "scan" | "returned" | "threw"
    \* ---- inline rules -----------------------------------------------
    src,            \* state.src
    pos,            \* state.pos
    posMax,         \* state.posMax
    tokens,         \* tokens pushed by state.push
    rule,           \* rule invoked last ("none" before any invocation)
    silent,         \* the silent argument of that invocation
    ret,            \* what it returned
    entryPos,       \* state.pos when it was entered
    \* ---- plugin registration and rendering ---------------------------
    env,            \* process.env: DEBUG and NODE_ENV
    options,        \* the options each plugin was registered with
    debugMode,      \* the debugMode closure variable of each plugin
    html,           \* what the renderer has produced so far
    rendered,       \* number of tokens the renderer has consumed
    \* ---- template configuration and successive calls ------------------
    templateConfig, \* the module-level templateConfig
    lastConfig,     \* the argument of the last updateTemplateConfig call
    updates,        \* number of updateTemplateConfig calls so far
    history,        \* the earlier calls of parseTemplateVariables
    \* ---- MDServer.handleRequest and resolveFile -----------------------
    req,            \* the request: method and URL path
    hpc,            \* position of handleRequest
    rpc,            \* position of resolveFile
    fullPath,       \* the local fullPath of resolveFile
    result,         \* what the promise of resolveFile resolved with
    responses,      \* the statuses passed to sendResponse, in order
    fsLog           \* the paths handed to fs.stat, fs.access, fs.readFile

scanVars == <<content, variables, i, phase, lastChar, output, name,
              defaultValue, calls, warned, pc>>
ruleVars == <<src, pos, posMax, tokens, rule, silent, ret, entryPos>>
renderVars == <<env, options, debugMode, html, rendered>>
appVars == <<templateConfig, lastConfig, updates, history>>
serverVars == <<req, hpc, rpc, fullPath, result, responses, fsLog>>
vars == <<scanVars, ruleVars, renderVars, appVars, serverVars>>

(***************************************************************************)
(* Bounds                                                                  *)
(***************************************************************************)
MaxLen == 6         \* longest exhaustively enumerated template content

(***************************************************************************)
(* Strings                                                                 *)
(***************************************************************************)
Alphabet == {"{", "}", "\\", "|", " ", "a"}

\* (the characters String.prototype.trim strips that the model uses)
Whitespace == {" ", "\t", "\n"}

RECURSIVE TrimStart(_)
TrimStart(s) ==
    IF s # <<>> /\ Head(s) \in Whitespace THEN TrimStart(Tail(s)) ELSE s

RECURSIVE TrimEnd(_)
TrimEnd(s) ==
    IF s # <<>> /\ s[Len(s)] \in Whitespace
    THEN TrimEnd(SubSeq(s, 1, Len(s) - 1))
    ELSE s

\* String.prototype.trim
Trim(s) == TrimEnd(TrimStart(s))

\* the value null of a string-or-null variable; no string equals it, since
\* no character is spelled "null"
null == <<"null">>

(***************************************************************************)
(* parseTemplateVariables                                                  *)
(***************************************************************************)
outside == 0
insideName == 1
insideDefault == 2

\* deEscape without its first branch: a backslash is dropped but the
\* character after it keeps its role as a delimiter
deEscape_NoEscapeBranch(lc, char) ==
    LET pending == IF lc = <<"\\">> THEN <<>> ELSE lc IN
    IF char \in {"{", "}"} THEN
        IF lc = <<char>> THEN
            [char |-> <<char, char>>, isDoubleBrace |-> TRUE, lastChar |-> <<>>]
        ELSE
            [char |-> pending, isDoubleBrace |-> FALSE, lastChar |-> <<char>>]
    ELSE IF char = "\\" THEN
        [char |-> <<>>, isDoubleBrace |-> FALSE, lastChar |-> <<"\\">>]
    ELSE
        [char |-> pending \o <<char>>, isDoubleBrace |-> FALSE,
         lastChar |-> <<>>]

\* deEscape(char), with the closed-over lastChar passed in and its new
\* value returned beside result.char and result.isDoubleBrace
deEscape(lc, char) ==
    IF lc = <<"\\">> THEN
        [char |-> <<char>>, isDoubleBrace |-> FALSE, lastChar |-> <<>>]
    ELSE IF char \in {"{", "}"} THEN
        IF lc = <<char>> THEN
            [char |-> <<char, char>>, isDoubleBrace |-> TRUE, lastChar |-> <<>>]
        ELSE
            [char |-> lc, isDoubleBrace |-> FALSE, lastChar |-> <<char>>]
    ELSE IF char = "\\" THEN
        [char |-> <<>>, isDoubleBrace |-> FALSE, lastChar |-> <<"\\">>]
    ELSE
        [char |-> lc \o <<char>>, isDoubleBrace |-> FALSE, lastChar |-> <<>>]

\* JavaScript values that addValue can meet
JSString(s) == [type |-> "string", str |-> s]
JSNull == [type |-> "null"]
JSUndefined == [type |-> "undefined"]
JSFunction == [type |-> "function"]
JSObject == [type |-> "object"]

isNil(val) == val.type = "null" \/ val.type = "undefined"

S_constructor == <<"c", "o", "n", "s", "t", "r", "u", "c", "t", "o", "r">>
S_proto == <<"_", "_", "p", "r", "o", "t", "o", "_", "_">>

\* templateConfig.variables is a plain object literal: a property read finds
\* the members of Object.prototype when the object has no own property of
\* that name
PrototypeMember(n) ==
    IF n = S_constructor THEN JSFunction
    ELSE IF n = S_proto THEN JSObject
    ELSE JSUndefined

\* templateConfig.variables[name]
Lookup(tbl, n) == IF n \in DOMAIN tbl THEN tbl[n] ELSE PrototypeMember(n)

SpanOpen == <<"<span class='failed-substitution'>">>
SpanClose == <<"</span>">>
FailedSpan(n) == SpanOpen \o n \o SpanClose

\* addValue(): the scanner state after the call
addValue(st, tbl) ==
    LET found == Lookup(tbl, st.name)
        fromTable == ~isNil(found)
        isSpan == ~fromTable /\ st.defaultValue = null
        value == IF fromTable THEN found
                 ELSE IF isSpan THEN JSString(Trim(FailedSpan(st.name)))
                 ELSE JSString(st.defaultValue)
    IN  IF value.type # "string" THEN
            \* value.trim is not a function
            [st EXCEPT !.threw = TRUE, !.calls = @ + 1]
        ELSE
            [st EXCEPT !.output = @ \o Trim(value.str),
                       !.calls = @ + 1,
                       !.warned = IF isSpan THEN Append(@, st.name) ELSE @]

\* case outside
CaseOutside(st, char) ==
    LET deEscaped == deEscape(st.lastChar, char) IN
    IF deEscaped.isDoubleBrace /\ deEscaped.char = <<"{", "{">> THEN
        [st EXCEPT !.phase = insideName, !.name = <<>>, !.lastChar = <<>>]
    ELSE
        [st EXCEPT !.output = @ \o deEscaped.char,
                   !.lastChar = deEscaped.lastChar]

\* case insideName
CaseInsideName(st, c, char, tbl) ==
    IF char = "|" THEN
        [st EXCEPT !.name = Trim(@), !.phase = insideDefault]
    ELSE IF char = "}" THEN
        \* look ahead for second }
        IF st.i + 1 < Len(c) /\ c[st.i + 2] = "}" THEN
            LET added == addValue([st EXCEPT !.name = Trim(@)], tbl) IN
            IF added.threw THEN added
            ELSE [added EXCEPT !.i = @ + 1, !.phase = outside,
                               !.name = null, !.defaultValue = null]
        ELSE
            [st EXCEPT !.name = @ \o <<char>>]
    ELSE
        [st EXCEPT !.name = @ \o <<char>>]

\* case insideDefault
CaseInsideDefault(st, char, tbl) ==
    LET deEscaped == deEscape(st.lastChar, char)
        s1 == [st EXCEPT !.lastChar = deEscaped.lastChar]
        dv == IF st.defaultValue = null THEN <<>> ELSE st.defaultValue
    IN
    IF deEscaped.isDoubleBrace /\ deEscaped.char = <<"}", "}">> THEN
        LET added == addValue([s1 EXCEPT !.defaultValue = dv], tbl) IN
        IF added.threw THEN added
        ELSE [added EXCEPT !.phase = outside,
                           !.name = null, !.defaultValue = null]
    ELSE
        [s1 EXCEPT !.defaultValue = dv \o deEscaped.char]

\* the local state of a call if lastChar were declared outside the function
ScanStart_SharedLastChar ==
    [i |-> 0, phase |-> outside, lastChar |-> lastChar, output |-> <<>>,
     name |-> null, defaultValue |-> null, calls |-> 0, warned |-> <<>>,
     threw |-> FALSE]

\* the local state of a call before the loop
ScanStart ==
    [i |-> 0, phase |-> outside, lastChar |-> <<>>, output |-> <<>>,
     name |-> null, defaultValue |-> null, calls |-> 0, warned |-> <<>>,
     threw |-> FALSE]

\* one iteration of the for loop, i++ included
Iteration(st, c, tbl) ==
    LET char == c[st.i + 1]
        body == CASE st.phase = outside -> CaseOutside(st, char)
                  [] st.phase = insideName -> CaseInsideName(st, c, char, tbl)
                  [] st.phase = insideDefault -> CaseInsideDefault(st, char, tbl)
    IN  IF body.threw THEN body ELSE [body EXCEPT !.i = @ + 1]

\* the loop run to its end (or to the exception) from state st
RECURSIVE RunLoop(_, _, _)
RunLoop(st, c, tbl) ==
    IF st.threw \/ st.i >= Len(c) THEN st
    ELSE RunLoop(Iteration(st, c, tbl), c, tbl)

\* parseTemplateVariables(content) as a function: the final loop state;
\* the return value is its output unless threw
parseTemplateVariables(c, tbl) == RunLoop(ScanStart, c, tbl)

(***************************************************************************)
(* The scanner as a state machine: one action per loop iteration           *)
(***************************************************************************)
Local ==
    [i |-> i, phase |-> phase, lastChar |-> lastChar, output |-> output,
     name |-> name, defaultValue |-> defaultValue, calls |-> calls,
     warned |-> warned, threw |-> (pc = "threw")]

\* an iteration that stores the default of a resolved reference in the table
Becomes_StoresDefault(st) ==
    /\ i' = st.i
    /\ phase' = st.phase
    /\ lastChar' = st.lastChar
    /\ output' = st.output
    /\ name' = st.name
    /\ defaultValue' = st.defaultValue
    /\ calls' = st.calls
    /\ warned' = st.warned
    /\ pc' = IF st.threw THEN "threw" ELSE "scan"
    /\ variables' = IF st.calls > calls /\ phase = insideDefault
                       /\ defaultValue # null
                    THEN [n \in DOMAIN variables \cup {name} |->
                             IF n = name THEN JSString(defaultValue)
                             ELSE variables[n]]
                    ELSE variables
    /\ UNCHANGED content

Becomes(st) ==
    /\ i' = st.i
    /\ phase' = st.phase
    /\ lastChar' = st.lastChar
    /\ output' = st.output
    /\ name' = st.name
    /\ defaultValue' = st.defaultValue
    /\ calls' = st.calls
    /\ warned' = st.warned
    /\ pc' = IF st.threw THEN "threw" ELSE "scan"
    /\ UNCHANGED <<content, variables>>

ScanOutside ==
    /\ pc = "scan" /\ i < Len(content) /\ phase = outside
    /\ Becomes(Iteration(Local, content, variables))
    /\ UNCHANGED ruleVars
    /\ UNCHANGED renderVars
    /\ UNCHANGED <<appVars, serverVars>>

ScanInsideName ==
    /\ pc = "scan" /\ i < Len(content) /\ phase = insideName
    /\ Becomes(Iteration(Local, content, variables))
    /\ UNCHANGED ruleVars
    /\ UNCHANGED renderVars
    /\ UNCHANGED <<appVars, serverVars>>

ScanInsideDefault ==
    /\ pc = "scan" /\ i < Len(content) /\ phase = insideDefault
    /\ Becomes(Iteration(Local, content, variables))
    /\ UNCHANGED ruleVars
    /\ UNCHANGED renderVars
    /\ UNCHANGED <<appVars, serverVars>>

\* a return that emits the text of an unterminated reference as a literal
Return_FlushesPartial ==
    /\ pc = "scan" /\ i >= Len(content)
    /\ pc' = "returned"
    /\ output' = IF phase = outside THEN output
                 ELSE output \o <<"{", "{">> \o name
    /\ UNCHANGED <<content, variables, i, phase, lastChar, name,
                   defaultValue, calls, warned>>
    /\ UNCHANGED ruleVars
    /\ UNCHANGED renderVars
    /\ UNCHANGED <<appVars, serverVars>>

\* return output
Return ==
    /\ pc = "scan" /\ i >= Len(content)
    /\ pc' = "returned"
    /\ UNCHANGED <<content, variables, i, phase, lastChar, output, name,
                   defaultValue, calls, warned>>
    /\ UNCHANGED ruleVars
    /\ UNCHANGED renderVars
    /\ UNCHANGED <<appVars, serverVars>>

\* ---- inputs ------------------------------------------------------------
StringsUpTo(n) == UNION {[1..k -> Alphabet] : k \in 0..n}

S_a == <<"a">>

\* variable tables: empty, a string padded with whitespace, an explicit null
Tables ==
    { <<>>,
      [n \in {S_a} |-> JSString(<<" ", "X", " ">>)],
      [n \in {S_a} |-> JSNull] }

\* contents longer than MaxLen: the examples of the documentation, with the
\* variable name a, and references to members of Object.prototype
Examples ==
    { <<"\\", "{", "{", " ", "a", " ", "}", "}">>,
      <<"{", "{", " ", "a", " ", "|", " ", "a", "a", " ", "}", "}">>,
      <<"{", "{", "a", "|", "}", "}">>,
      <<"{", "{", "a", "|", "\\", "}", "}", "}", "}">>,
      <<"{", "{", "a", "|", "{", "{", "}", "}">>,
      <<"{", "{">> \o S_constructor \o <<"}", "}">>,
      <<"{", "{">> \o S_constructor \o <<"|", "}", "}">>,
      <<"{", "{">> \o S_proto \o <<"|", "a", "}", "}">> }

Contents == StringsUpTo(MaxLen) \cup Examples

ScanInit ==
    /\ content \in Contents
    /\ variables \in Tables
    /\ i = 0
    /\ phase = outside
    /\ lastChar = <<>>
    /\ output = <<>>
    /\ name = null
    /\ defaultValue = null
    /\ calls = 0
    /\ warned = <<>>
    /\ pc = "scan"

RuleIdle ==
    /\ src = <<>>
    /\ pos = 0
    /\ posMax = 0
    /\ tokens = <<>>
    /\ rule = "none"
    /\ silent = FALSE
    /\ ret = FALSE
    /\ entryPos = 0

\* no plugin output is involved in a call of parseTemplateVariables
RenderIdle ==
    /\ env = [DEBUG |-> "false", NODE_ENV |-> "production"]
    /\ options = [k \in {"comment", "issue"} |-> [debug |-> FALSE]]
    /\ debugMode = [k \in {"comment", "issue"} |-> FALSE]
    /\ html = <<>>
    /\ rendered = 0

S_title == <<"t", "i", "t", "l", "e">>
S_author == <<"a", "u", "t", "h", "o", "r">>

\* const defaultTemplateConfig = { variables: { title: "Document",
\* author: "Unknown", ... } }
defaultTemplateConfig ==
    [key \in {"variables"} |->
        [n \in {S_title, S_author} |->
            IF n = S_title
            THEN JSString(<<"D", "o", "c", "u", "m", "e", "n", "t">>)
            ELSE JSString(<<"U", "n", "k", "n", "o", "w", "n">>)]]

\* let templateConfig = { ...defaultTemplateConfig }, nothing called yet
AppIdle ==
    /\ templateConfig = defaultTemplateConfig
    /\ lastConfig = <<>>
    /\ updates = 0
    /\ history = <<>>

\* no request is being handled
ServerIdle ==
    /\ req = [method |-> "GET", path |-> [abs |-> TRUE, segs |-> <<>>],
              malformed |-> FALSE]
    /\ hpc = "idle"
    /\ rpc = "idle"
    /\ fullPath = <<>>
    /\ result = 0
    /\ responses = <<>>
    /\ fsLog = {}

Init == ScanInit /\ RuleIdle /\ RenderIdle /\ AppIdle /\ ServerIdle

Next == ScanOutside \/ ScanInsideName \/ ScanInsideDefault \/ Return

Spec == Init /\ [][Next]_vars

(***************************************************************************)
(* The inline rules (markdown-it/comment.js, status.js, breadcrumbs.js)     *)
(***************************************************************************)
MaxBody == 3        \* longest exhaustively enumerated directive body
MaxStart == 1       \* largest state.pos a rule is first offered

Min(a, b) == IF a < b THEN a ELSE b

\* String.prototype.slice(a, b) for 0 <= a (0-based, b exclusive, clamped)
Slice(s, a, b) == SubSeq(s, a + 1, Min(b, Len(s)))

\* String.prototype.indexOf(ch), searching from 0-based index k
RECURSIVE IndexFrom(_, _, _)
IndexFrom(s, ch, k) ==
    IF k >= Len(s) THEN -1
    ELSE IF s[k + 1] = ch THEN k
    ELSE IndexFrom(s, ch, k + 1)

IndexOf(s, ch) == IndexFrom(s, ch, 0)

\* every plugin instance bound to the default keyword
Chars_DefaultKeyword(keyword) ==
    CASE keyword = "comment" -> <<"c", "o", "m", "m", "e", "n", "t">>
      [] keyword = "issue" -> <<"c", "o", "m", "m", "e", "n", "t">>
      [] keyword = "status" -> <<"s", "t", "a", "t", "u", "s">>

\* the characters of a keyword
Chars(keyword) ==
    CASE keyword = "comment" -> <<"c", "o", "m", "m", "e", "n", "t">>
      [] keyword = "issue" -> <<"i", "s", "s", "u", "e">>
      [] keyword = "status" -> <<"s", "t", "a", "t", "u", "s">>

\* `\${${keyword} `
Prefix(keyword) == <<"$", "{">> \o Chars(keyword) \o <<" ">>

S_breadcrumbs ==
    <<"$", "{", "b", "r", "e", "a", "d", "c", "r", "u", "m", "b", "s", "}">>

\* the loop without the foundEnd test: the end of the segment ends the body
RECURSIVE FindEnd_NoFoundEnd(_, _, _)
FindEnd_NoFoundEnd(s, p, max) ==
    IF p < max THEN
        IF s[p + 1] = "}" THEN p ELSE FindEnd_NoFoundEnd(s, p + 1, max)
    ELSE max - 1

\* one pass through the body of the while loop of commentRule, pos = p
commentLoopBody(s, p) ==
    IF s[p + 1] = "}" THEN [pos |-> p, foundEnd |-> TRUE]
    ELSE [pos |-> p + 1, foundEnd |-> FALSE]

\* the while loop of commentRule: the index of the first } in [p, max), or
\* -1 when foundEnd stays false
RECURSIVE FindEnd(_, _, _)
FindEnd(s, p, max) ==
    IF p < max THEN
        LET after == commentLoopBody(s, p) IN
        IF after.foundEnd THEN after.pos ELSE FindEnd(s, after.pos, max)
    ELSE -1

\* a loop body that does not look at the character before a }
statusLoopBody_NoSkip(s, start, p) ==
    IF s[p + 1] = "}" THEN [pos |-> p, foundEnd |-> TRUE]
    ELSE [pos |-> p + 1, foundEnd |-> FALSE]

\* a loop body that steps over an escaped } and the character after it
statusLoopBody_SkipsTwo(s, start, p) ==
    IF s[p + 1] = "}" THEN
        IF p - 1 >= start /\ s[p] = "\\"
        THEN [pos |-> p + 2, foundEnd |-> FALSE]
        ELSE [pos |-> p, foundEnd |-> TRUE]
    ELSE [pos |-> p + 1, foundEnd |-> FALSE]

\* one pass through the body of the while loop of statusRule, pos = p: a }
\* that follows a backslash is skipped
statusLoopBody(s, start, p) ==
    IF s[p + 1] = "}" THEN
        IF p - 1 >= start /\ s[p] = "\\"
        THEN [pos |-> p + 1, foundEnd |-> FALSE]
        ELSE [pos |-> p, foundEnd |-> TRUE]
    ELSE [pos |-> p + 1, foundEnd |-> FALSE]

\* the while loop of statusRule
RECURSIVE FindEndStatus(_, _, _, _)
FindEndStatus(s, start, p, max) ==
    IF p < max THEN
        LET after == statusLoopBody(s, start, p) IN
        IF after.foundEnd THEN after.pos
        ELSE FindEndStatus(s, start, after.pos, max)
    ELSE -1

\* the author sliced from 0, the @ kept
ParseBody_KeepsAt(body) ==
    LET atIndex == IndexOf(body, "@")
        spaceIndex == IndexOf(body, " ")
    IN  IF atIndex = 0 THEN
            IF spaceIndex > 0 THEN
                [author |-> Slice(body, 0, spaceIndex),
                 commentText |-> Trim(Slice(body, spaceIndex + 1, Len(body)))]
            ELSE
                [author |-> Slice(body, 1, Len(body)), commentText |-> <<>>]
        ELSE
            [author |-> <<>>, commentText |-> body]

\* author and comment text of a trimmed directive body
ParseBody(body) ==
    LET atIndex == IndexOf(body, "@")
        spaceIndex == IndexOf(body, " ")
    IN  IF atIndex = 0 THEN
            IF spaceIndex > 0 THEN
                [author |-> Slice(body, 1, spaceIndex),
                 commentText |-> Trim(Slice(body, spaceIndex + 1, Len(body)))]
            ELSE
                [author |-> Slice(body, 1, Len(body)), commentText |-> <<>>]
        ELSE
            [author |-> <<>>, commentText |-> body]

\* what an invocation leaves: its return value, state.pos, the token stream
Outcome(r, p, toks) == [ret |-> r, pos |-> p, tokens |-> toks]

\* a comment rule that pushes its token twice
commentRule_PushesTwice(keyword, s, start, max, sil, toks) ==
    LET plen == Len(Chars(keyword)) + 3 IN
    IF start + plen > max THEN Outcome(FALSE, start, toks)
    ELSE IF Slice(s, start, start + plen) # Prefix(keyword)
         THEN Outcome(FALSE, start, toks)
    ELSE LET end == FindEnd(s, start + plen, max) IN
         IF end = -1 THEN Outcome(FALSE, start, toks)
         ELSE LET body == Trim(Slice(s, start + plen, end))
                  parsed == ParseBody(body)
                  token == [type |-> keyword,
                            content |-> parsed.commentText,
                            author |-> parsed.author]
              IN  Outcome(TRUE, end + 1,
                          IF sil THEN toks ELSE Append(Append(toks, token), token))

\* commentRule(state, silent) of the plugin bound to keyword
commentRule(keyword, s, start, max, sil, toks) ==
    LET plen == Len(Chars(keyword)) + 3 IN
    IF start + plen > max THEN Outcome(FALSE, start, toks)
    ELSE IF Slice(s, start, start + plen) # Prefix(keyword)
         THEN Outcome(FALSE, start, toks)
    ELSE LET end == FindEnd(s, start + plen, max) IN
         IF end = -1 THEN Outcome(FALSE, start, toks)
         ELSE LET body == Trim(Slice(s, start + plen, end))
                  parsed == ParseBody(body)
                  token == [type |-> keyword,
                            content |-> parsed.commentText,
                            author |-> parsed.author]
              IN  Outcome(TRUE, end + 1,
                          IF sil THEN toks ELSE Append(toks, token))

\* a status rule that scans with state.pos itself and does not restore it
statusRule_NoRestore(s, start, max, sil, toks) ==
    LET plen == Len(Chars("status")) + 3 IN
    IF start + plen > max THEN Outcome(FALSE, start, toks)
    ELSE IF Slice(s, start, start + plen) # Prefix("status")
         THEN Outcome(FALSE, start, toks)
    ELSE LET end == FindEndStatus(s, start, start + plen, max) IN
         IF end = -1 THEN Outcome(FALSE, max, toks)
         ELSE Outcome(TRUE, end + 1, toks)

\* a status rule that pushes a token holding the body
statusRule_PushesToken(s, start, max, sil, toks) ==
    LET plen == Len(Chars("status")) + 3 IN
    IF start + plen > max THEN Outcome(FALSE, start, toks)
    ELSE IF Slice(s, start, start + plen) # Prefix("status")
         THEN Outcome(FALSE, start, toks)
    ELSE LET end == FindEndStatus(s, start, start + plen, max) IN
         IF end = -1 THEN Outcome(FALSE, start, toks)
         ELSE Outcome(TRUE, end + 1,
                      IF sil THEN toks
                      ELSE Append(toks, [type |-> "status",
                                         content |-> Slice(s, start + plen, end),
                                         author |-> <<>>]))

\* statusRule(state, silent)
statusRule(s, start, max, sil, toks) ==
    LET plen == Len(Chars("status")) + 3 IN
    IF start + plen > max THEN Outcome(FALSE, start, toks)
    ELSE IF Slice(s, start, start + plen) # Prefix("status")
         THEN Outcome(FALSE, start, toks)
    ELSE LET end == FindEndStatus(s, start, start + plen, max) IN
         IF end = -1 THEN Outcome(FALSE, start, toks)
         ELSE Outcome(TRUE, end + 1, toks)

\* a breadcrumbs rule that only requires the literal to fit below posMax
breadcrumbsRule_AllowsTrailing(s, start, max, sil, toks) ==
    IF start + Len(S_breadcrumbs) > max THEN Outcome(FALSE, start, toks)
    ELSE IF Slice(s, start, start + Len(S_breadcrumbs)) # S_breadcrumbs
         THEN Outcome(FALSE, start, toks)
    ELSE Outcome(TRUE, start + Len(S_breadcrumbs), toks)

\* breadcrumbsRule(state, silent)
breadcrumbsRule(s, start, max, sil, toks) ==
    IF start + Len(S_breadcrumbs) # max THEN Outcome(FALSE, start, toks)
    ELSE IF Slice(s, start, start + Len(S_breadcrumbs)) # S_breadcrumbs
         THEN Outcome(FALSE, start, toks)
    ELSE Outcome(TRUE, start + Len(S_breadcrumbs), toks)

\* ---- the rules as actions: the host tokenizer offers the position to a rule
Invoked(r, sil, out) ==
    /\ rule' = r
    /\ silent' = sil
    /\ entryPos' = pos
    /\ ret' = out.ret
    /\ pos' = out.pos
    /\ tokens' = out.tokens
    /\ UNCHANGED <<src, posMax>>
    /\ UNCHANGED scanVars
    /\ UNCHANGED renderVars
    /\ UNCHANGED <<appVars, serverVars>>

CommentRule ==
    \E sil \in BOOLEAN :
        /\ pos < posMax
        /\ Invoked("comment", sil,
                   commentRule("comment", src, pos, posMax, sil, tokens))

IssueRule ==
    \E sil \in BOOLEAN :
        /\ pos < posMax
        /\ Invoked("issue", sil,
                   commentRule("issue", src, pos, posMax, sil, tokens))

StatusRule ==
    \E sil \in BOOLEAN :
        /\ pos < posMax
        /\ Invoked("status", sil, statusRule(src, pos, posMax, sil, tokens))

BreadcrumbsRule ==
    \E sil \in BOOLEAN :
        /\ pos < posMax
        /\ Invoked("breadcrumbs", sil,
                   breadcrumbsRule(src, pos, posMax, sil, tokens))

\* ---- inputs ------------------------------------------------------------
\* a generated source is  lead . head . body
Leads == {<<>>, <<"a">>}

Heads ==
    { <<>>, Prefix("comment"), Prefix("issue"), Prefix("status"),
      S_breadcrumbs, <<"$", "{">> \o Chars("comment") }

BodyAlphabet == {"}", "\\", "@", " ", "a"}

Bodies == UNION {[1..k -> BodyAlphabet] : k \in 0..MaxBody}

\* longer bodies: author and message, padding, an escaped brace
ExtraBodies ==
    { <<"@", "a", " ", "a", "}">>,
      <<" ", "@", "a", " ", " ", "a", " ", "}">>,
      <<"@", "a", "@", " ", "a", " ", "a", "}">>,
      <<"a", " ", "@", "a", "}">>,
      <<"a", "\\", "}", " ", "a", "}">> }

Generated ==
    {l \o h \o b : l \in Leads, h \in Heads, b \in Bodies \cup ExtraBodies}

\* ${comment @jd fix this}
S_CommentJd ==
    Prefix("comment")
        \o <<"@", "j", "d", " ", "f", "i", "x", " ", "t", "h", "i", "s", "}">>

\* ${issue text with no author}
S_IssueNoAuthor ==
    Prefix("issue")
        \o <<"t", "e", "x", "t", " ", "w", "i", "t", "h", " ", "n", "o", " ",
             "a", "u", "t", "h", "o", "r", "}">>

\* ${comment never closed
S_NeverClosed ==
    Prefix("comment")
        \o <<"n", "e", "v", "e", "r", " ", "c", "l", "o", "s", "e", "d">>

Sources == Generated \cup {S_CommentJd, S_IssueNoAuthor, S_NeverClosed}

RuleInit ==
    /\ src \in Sources
    /\ pos \in 0..Min(MaxStart, Len(src))
    /\ posMax \in pos..Len(src)
    /\ tokens = <<>>
    /\ rule = "none"
    /\ silent = FALSE
    /\ ret = FALSE
    /\ entryPos = pos

ScanIdle ==
    /\ content = <<>>
    /\ variables = <<>>
    /\ i = 0
    /\ phase = outside
    /\ lastChar = <<>>
    /\ output = <<>>
    /\ name = null
    /\ defaultValue = null
    /\ calls = 0
    /\ warned = <<>>
    /\ pc = "idle"

InitRules == RuleInit /\ ScanIdle /\ RenderIdle /\ AppIdle /\ ServerIdle

NextRules == CommentRule \/ IssueRule \/ StatusRule \/ BreadcrumbsRule

SpecRules == InitRules /\ [][NextRules]_vars

(***************************************************************************)
(* Registration and rendering (comment.js, status.js, breadcrumbs.js)      *)
(*                                                                         *)
(* Rendered HTML is a sequence whose elements are single characters or     *)
(* whole pieces of markup; an HTML entity is one element.                  *)
(***************************************************************************)
\* let debugMode = options.debug || process.env.DEBUG === 'true'
\*                 || process.env.NODE_ENV === 'development'
ResolveDebug(opts, e) ==
    opts.debug \/ e.DEBUG = "true" \/ e.NODE_ENV = "development"

\* md.utils.escapeHtml, one character
EscapeChar(c) ==
    CASE c = "&" -> "&amp;"
      [] c = "<" -> "&lt;"
      [] c = ">" -> "&gt;"
      [] c = "\"" -> "&quot;"
      [] OTHER -> c

\* md.utils.escapeHtml
escapeHtml(s) == [k \in 1..Len(s) |-> EscapeChar(s[k])]

\* a renderer that emits the markup whatever the debug flag is
commentRenderer_AlwaysMarkup(keyword, dbg, token) ==
    <<"<div class=\"">> \o Chars(keyword) \o <<"\">">>
        \o (IF token.author # <<>>
            THEN <<"<span class=\"author\">@">> \o token.author
                     \o <<" </span>">>
            ELSE <<>>)
        \o (IF token.content # <<>>
            THEN <<"<span class=\"message\">">> \o escapeHtml(token.content)
                     \o <<"</span>">>
            ELSE <<>>)
        \o <<"</div>">>

\* md.renderer.rules[keyword] of the plugin bound to keyword, whose closure
\* holds debugMode = dbg
commentRenderer(keyword, dbg, token) ==
    LET author == token.author
        text == token.content       \* the local named content
    IN  IF ~dbg THEN <<>>
        ELSE <<"<div class=\"">> \o Chars(keyword) \o <<"\">">>
                 \o (IF author # <<>>
                     THEN <<"<span class=\"author\">@">> \o author
                              \o <<" </span>">>
                     ELSE <<>>)
                 \o (IF text # <<>>
                     THEN <<"<span class=\"message\">">> \o escapeHtml(text)
                              \o <<"</span>">>
                     ELSE <<>>)
                 \o <<"</div>">>

\* md.renderer.rules.status
statusRenderer(token) == <<>>

\* md.renderer.rules.breadcrumbs
breadcrumbsRenderer(token) == <<"<div id=\"breadcrumbs\"></div>">>

\* the host looks the renderer up by token type; text is escaped by the host
RendererFor(dbg, token) ==
    CASE token.type \in {"comment", "issue"} ->
             commentRenderer(token.type, dbg[token.type], token)
      [] token.type = "status" -> statusRenderer(token)
      [] token.type = "breadcrumbs" -> breadcrumbsRenderer(token)
      [] OTHER -> escapeHtml(token.content)

\* whether one of the installed rules matches at p
SomeRuleMatches(s, p, max) ==
    \/ commentRule("comment", s, p, max, FALSE, <<>>).ret
    \/ commentRule("issue", s, p, max, FALSE, <<>>).ret
    \/ statusRule(s, p, max, FALSE, <<>>).ret
    \/ breadcrumbsRule(s, p, max, FALSE, <<>>).ret

\* every rule declined: the host takes the character as ordinary text
HostText ==
    /\ pos < posMax
    /\ ~SomeRuleMatches(src, pos, posMax)
    /\ rule' = "text"
    /\ silent' = FALSE
    /\ entryPos' = pos
    /\ ret' = TRUE
    /\ pos' = pos + 1
    /\ tokens' = Append(tokens, [type |-> "text", content |-> <<src[pos + 1]>>,
                                 author |-> <<>>])
    /\ UNCHANGED <<src, posMax>>
    /\ UNCHANGED scanVars
    /\ UNCHANGED renderVars
    /\ UNCHANGED <<appVars, serverVars>>

\* a renderer that resolves the debug flag each time it renders
Render_ResolvesWhenRendering ==
    /\ pos >= posMax
    /\ rendered < Len(tokens)
    /\ html' = html \o RendererFor([k \in {"comment", "issue"} |->
                                      ResolveDebug(options[k], env)],
                                  tokens[rendered + 1])
    /\ rendered' = rendered + 1
    /\ UNCHANGED <<env, options, debugMode>>
    /\ UNCHANGED ruleVars
    /\ UNCHANGED scanVars
    /\ UNCHANGED <<appVars, serverVars>>

\* the segment is tokenized: the host renders the next token of the stream
Render ==
    /\ pos >= posMax
    /\ rendered < Len(tokens)
    /\ html' = html \o RendererFor(debugMode, tokens[rendered + 1])
    /\ rendered' = rendered + 1
    /\ UNCHANGED <<env, options, debugMode>>
    /\ UNCHANGED ruleVars
    /\ UNCHANGED scanVars
    /\ UNCHANGED <<appVars, serverVars>>

\* ---- inputs ------------------------------------------------------------
Envs == [DEBUG : {"true", "false"},
         NODE_ENV : {"development", "local", "production"}]

Registrations == [{"comment", "issue"} -> [debug : BOOLEAN]]

\* ${comment @jd a<b & "c"}
S_CommentMarkup ==
    Prefix("comment")
        \o <<"@", "j", "d", " ", "a", "<", "b", " ", "&", " ", "\"", "c",
             "\"", "}">>

\* ${issue a > b}
S_IssueMarkup == Prefix("issue") \o <<"a", " ", ">", " ", "b", "}">>

\* ${status draft \} still}
S_Status ==
    Prefix("status")
        \o <<"d", "r", "a", "f", "t", " ", "\\", "}", " ", "s", "t", "i",
             "l", "l", "}">>

RenderSources ==
    { S_CommentMarkup,
      S_IssueMarkup,
      S_CommentJd \o S_IssueNoAuthor,
      S_CommentMarkup \o S_IssueMarkup,
      Prefix("comment") \o <<"@", "a", "}">>,
      Prefix("issue") \o <<"}">> \o Prefix("comment") \o <<"a", "\\", "}">>,
      S_breadcrumbs,
      <<"a">> \o S_breadcrumbs,
      S_CommentMarkup \o S_breadcrumbs,
      S_breadcrumbs \o <<"a">>,
      S_Status,
      S_Status \o S_IssueMarkup \o <<"a">>,
      <<"a", "<">> \o S_Status \o <<"&">>,
      S_NeverClosed }

\* md.use(plugin, options) of each plugin, then one inline segment to parse
RenderInit ==
    /\ env \in Envs
    /\ options \in Registrations
    /\ debugMode = [k \in {"comment", "issue"} |-> ResolveDebug(options[k], env)]
    /\ html = <<>>
    /\ rendered = 0
    /\ src \in RenderSources
    /\ pos = 0
    /\ posMax = Len(src)
    /\ tokens = <<>>
    /\ rule = "none"
    /\ silent = FALSE
    /\ ret = FALSE
    /\ entryPos = 0

\* process.env.DEBUG or process.env.NODE_ENV is changed after registration
SetEnv ==
    /\ \E e \in Envs : e # env /\ env' = e
    /\ UNCHANGED <<options, debugMode, html, rendered>>
    /\ UNCHANGED <<scanVars, ruleVars, appVars, serverVars>>

\* the options object handed to md.use is changed after registration
SetOptions ==
    /\ \E o \in Registrations : o # options /\ options' = o
    /\ UNCHANGED <<env, debugMode, html, rendered>>
    /\ UNCHANGED <<scanVars, ruleVars, appVars, serverVars>>

InitRender == RenderInit /\ ScanIdle /\ AppIdle /\ ServerIdle

NextRender ==
    \/ CommentRule
    \/ IssueRule
    \/ StatusRule
    \/ BreadcrumbsRule
    \/ HostText
    \/ Render
    \/ SetEnv
    \/ SetOptions

SpecRender == InitRender /\ [][NextRender]_vars

(***************************************************************************)
(* Both scanners: a behaviour is a call of parseTemplateVariables or the   *)
(* offering of one inline segment to the rules                             *)
(***************************************************************************)
InitScans == Init \/ InitRules

NextScans ==
    \/ ScanOutside
    \/ ScanInsideName
    \/ ScanInsideDefault
    \/ Return
    \/ CommentRule
    \/ IssueRule
    \/ StatusRule
    \/ BreadcrumbsRule

SpecScans == InitScans /\ [][NextScans]_vars

(***************************************************************************)
(* The template configuration and successive calls of                      *)
(* parseTemplateVariables (part_000, lines 112-139 and 147-165)             *)
(***************************************************************************)
MaxCalls == 3       \* calls of parseTemplateVariables in one behaviour
MaxUpdates == 2     \* calls of updateTemplateConfig in one behaviour

\* the object spread { ...a, ...b }: the keys of both, b's value where both
\* have the key
Spread(a, b) ==
    [k \in DOMAIN a \cup DOMAIN b |-> IF k \in DOMAIN b THEN b[k] ELSE a[k]]

\* an update that overlays the argument on the current configuration
updateTemplateConfig_Accumulates(config) == Spread(templateConfig, config)

\* updateTemplateConfig(config): the new value of templateConfig
updateTemplateConfig(config) == Spread(defaultTemplateConfig, config)

\* getTemplateConfig()
getTemplateConfig == templateConfig

\* ---- inputs ------------------------------------------------------------
\* {}, a table without the default names, a table that overrides title
\* only, and an argument without a variables key
Configs ==
    { <<>>,
      [key \in {"variables"} |-> [n \in {S_a} |-> JSString(<<" ", "X", " ">>)]],
      [key \in {"variables"} |-> [n \in {S_title} |-> JSString(<<"T">>)]],
      [key \in {"theme"} |-> JSString(<<"d", "a", "r", "k">>)] }

\* contents that end with a pending brace, a pending backslash, inside an
\* unterminated reference, and references to a default name, to a name that
\* is no default, and to a member of Object.prototype
CallContents ==
    { <<"{">>,
      <<"\\">>,
      <<"{", "{", "a">>,
      <<"{", "{", "a", "|">>,
      <<"{", "a", "}", "}">>,
      <<"{", "{">> \o S_title \o <<"}", "}">>,
      <<"{", "{", "a", "|", "b", "}", "}">>,
      <<"{", "{">> \o S_constructor \o <<"}", "}">> }

\* how a finished call is remembered
Finished ==
    [content |-> content, variables |-> variables, pc |-> pc,
     output |-> output]

\* updateTemplateConfig(config), between two calls of the scanner
UpdateTemplateConfig ==
    \E config \in Configs :
        /\ pc \in {"app", "returned", "threw"}
        /\ updates < MaxUpdates
        /\ templateConfig' = updateTemplateConfig(config)
        /\ lastConfig' = config
        /\ updates' = updates + 1
        /\ UNCHANGED history
        /\ UNCHANGED <<scanVars, ruleVars, renderVars, serverVars>>

\* parseTemplateVariables(content) is entered: the locals are declared
\* afresh, the table is whatever templateConfig.variables is now
ParseCall ==
    \E c \in CallContents :
        /\ pc \in {"app", "returned", "threw"}
        /\ Len(history) < MaxCalls - 1
        /\ history' = IF pc = "app" THEN history ELSE Append(history, Finished)
        /\ content' = c
        /\ variables' = getTemplateConfig["variables"]
        /\ i' = ScanStart.i
        /\ phase' = ScanStart.phase
        /\ lastChar' = ScanStart.lastChar
        /\ output' = ScanStart.output
        /\ name' = ScanStart.name
        /\ defaultValue' = ScanStart.defaultValue
        /\ calls' = ScanStart.calls
        /\ warned' = ScanStart.warned
        /\ pc' = "scan"
        /\ UNCHANGED <<templateConfig, lastConfig, updates>>
        /\ UNCHANGED <<ruleVars, renderVars, serverVars>>

\* the module is loaded, nothing was called
AppInit ==
    /\ AppIdle
    /\ content = <<>>
    /\ variables = defaultTemplateConfig["variables"]
    /\ i = 0
    /\ phase = outside
    /\ lastChar = <<>>
    /\ output = <<>>
    /\ name = null
    /\ defaultValue = null
    /\ calls = 0
    /\ warned = <<>>
    /\ pc = "app"

InitApp == AppInit /\ RuleIdle /\ RenderIdle /\ ServerIdle

NextApp ==
    \/ UpdateTemplateConfig
    \/ ParseCall
    \/ ScanOutside
    \/ ScanInsideName
    \/ ScanInsideDefault
    \/ Return

SpecApp == InitApp /\ [][NextApp]_vars

(***************************************************************************)
(* MDServer.handleRequest (part_001) and resolveFile (part_000)            *)
(*                                                                         *)
(* A path is a record: abs says whether it starts with a slash, segs are   *)
(* its segments.  A file system call has whatever outcome the file system  *)
(* gives at that moment.                                                   *)
(***************************************************************************)
\* path.normalize on the segments: . is dropped, .. removes the segment
\* before it, is dropped at the root and kept at the start of a relative path
RECURSIVE NormSegs(_, _, _)
NormSegs(abs, segs, stack) ==
    IF segs = <<>> THEN stack
    ELSE IF Head(segs) = "." THEN NormSegs(abs, Tail(segs), stack)
    ELSE IF Head(segs) = ".." THEN
        IF stack # <<>> /\ stack[Len(stack)] # ".."
        THEN NormSegs(abs, Tail(segs), SubSeq(stack, 1, Len(stack) - 1))
        ELSE IF abs THEN NormSegs(abs, Tail(segs), stack)
        ELSE NormSegs(abs, Tail(segs), Append(stack, ".."))
    ELSE NormSegs(abs, Tail(segs), Append(stack, Head(segs)))

\* path.normalize(requestPath)
normalize(path) ==
    [abs |-> path.abs, segs |-> NormSegs(path.abs, path.segs, <<>>)]

\* the segments whose text contains two dots in a row
DotDotNames == {"..", "a..b"}

\* normalizedPath.includes('..')
IncludesDotDot(path) == \E k \in 1..Len(path.segs) : path.segs[k] \in DotDotNames

\* the absolute basePath
basePath == <<"srv">>

\* path.join(a, b) with a absolute: the segments of both, normalized
join(a, segs) == NormSegs(TRUE, a \o segs, <<>>)

\* path.extname(fullPath).toLowerCase() === '.html'
HtmlNames == {"x.html", "index.html"}

IsHtml(full) == full # <<>> /\ full[Len(full)] \in HtmlNames

\* fullPath.replace(/\.html?$/i, '.md')
MarkdownPath(full) ==
    [k \in 1..Len(full) |->
        IF k < Len(full) THEN full[k]
        ELSE IF full[k] = "x.html" THEN "x.md" ELSE "index.md"]

INCLUDES == {"header", "footer", "head", "image-modal"}

\* how the promise of includeHtml(filename) ends: the fetch answers 200, it
\* answers another status, or the request fails (no 'error' listener is
\* attached to it, so the promise stays pending)
IncludeOutcomes == {"resolved", "rejected", "pending"}

\* the four awaits of convertMarkdownToHtml, in their order
AwaitOrder == <<"head", "header", "footer", "image-modal">>

\* what awaiting the includes from the k-th on comes to
RECURSIVE AwaitIncludes(_, _)
AwaitIncludes(inc, k) ==
    IF k > Len(AwaitOrder) THEN "resolved"
    ELSE IF inc[AwaitOrder[k]] = "resolved" THEN AwaitIncludes(inc, k + 1)
    ELSE inc[AwaitOrder[k]]

\* return { status, ... } of resolveFile
Resolves(status) ==
    /\ rpc' = "resolved"
    /\ result' = status
    /\ UNCHANGED fullPath

\* a step of resolveFile leaves the rest alone
ResolveFrame ==
    /\ UNCHANGED <<req, hpc, responses>>
    /\ UNCHANGED <<scanVars, ruleVars, renderVars, appVars>>

\* normalize, the traversal check, path.join
ResolveStart ==
    /\ rpc = "start"
    /\ LET normalizedPath == normalize(req.path) IN
       IF IncludesDotDot(normalizedPath)
       THEN Resolves(403) /\ UNCHANGED fsLog
       ELSE /\ rpc' = "stat"
            /\ fullPath' = join(basePath, normalizedPath.segs)
            /\ UNCHANGED <<result, fsLog>>
    /\ ResolveFrame

\* stats = await fs.stat(fullPath)
Stat ==
    /\ rpc = "stat"
    /\ fsLog' = fsLog \cup {fullPath}
    /\ \E outcome \in {"file", "directory", "ENOENT", "EACCES"} :
          CASE outcome = "directory" ->
                   rpc' = "accessHtml" /\ UNCHANGED <<fullPath, result>>
            [] outcome \in {"file", "ENOENT"} ->
                   rpc' = "read" /\ UNCHANGED <<fullPath, result>>
            [] OTHER -> Resolves(500)
    /\ ResolveFrame

\* await fs.access(path.join(fullPath, 'index.html'))
AccessIndexHtml ==
    /\ rpc = "accessHtml"
    /\ fsLog' = fsLog \cup {join(fullPath, <<"index.html">>)}
    /\ \E outcome \in {"ok", "ENOENT", "EACCES"} :
          CASE outcome = "ok" ->
                   /\ rpc' = "read"
                   /\ fullPath' = join(fullPath, <<"index.html">>)
                   /\ UNCHANGED result
            [] outcome = "ENOENT" ->
                   rpc' = "accessMd" /\ UNCHANGED <<fullPath, result>>
            [] OTHER -> Resolves(500)
    /\ ResolveFrame

\* await fs.access(path.join(fullPath, 'index.md'))
AccessIndexMd ==
    /\ rpc = "accessMd"
    /\ fsLog' = fsLog \cup {join(fullPath, <<"index.md">>)}
    /\ \E outcome \in {"ok", "ENOENT", "EACCES"} :
          CASE outcome = "ok" ->
                   /\ rpc' = "read"
                   /\ fullPath' = join(fullPath, <<"index.html">>)
                   /\ UNCHANGED result
            [] outcome = "ENOENT" -> Resolves(404)
            [] OTHER -> Resolves(500)
    /\ ResolveFrame

\* await fs.readFile(fullPath)
ReadFile ==
    /\ rpc = "read"
    /\ fsLog' = fsLog \cup {fullPath}
    /\ \E outcome \in {"ok", "ENOENT", "EISDIR"} :
          CASE outcome = "ok" -> Resolves(200)
            [] outcome = "ENOENT" ->
                   IF IsHtml(fullPath)
                   THEN rpc' = "readMd" /\ UNCHANGED <<fullPath, result>>
                   ELSE Resolves(404)
            [] OTHER -> Resolves(500)
    /\ ResolveFrame

\* await fs.readFile(markdownPath, 'utf8')
ReadMarkdown ==
    /\ rpc = "readMd"
    /\ fsLog' = fsLog \cup {MarkdownPath(fullPath)}
    /\ \E outcome \in {"ok", "ENOENT", "EACCES"} :
          CASE outcome = "ok" ->
                   rpc' = "convert" /\ UNCHANGED <<fullPath, result>>
            [] outcome = "ENOENT" -> Resolves(404)
            [] OTHER -> Resolves(500)
    /\ ResolveFrame

\* the markdown files the model reads: plain text, and a reference to a
\* member of Object.prototype
MarkdownContents == {<<"a">>, <<"{", "{">> \o S_constructor \o <<"}", "}">>}

\* parseTemplateVariables(markdownContent), then convertMarkdownToHtml with
\* its four includes
Convert ==
    /\ rpc = "convert"
    /\ \E markdownContent \in MarkdownContents,
          inc \in [INCLUDES -> IncludeOutcomes] :
          IF parseTemplateVariables(markdownContent,
                                    templateConfig["variables"]).threw
          THEN Resolves(500)
          ELSE CASE AwaitIncludes(inc, 1) = "resolved" -> Resolves(200)
                 [] AwaitIncludes(inc, 1) = "rejected" -> Resolves(500)
                 [] OTHER -> rpc' = "pending" /\ UNCHANGED <<fullPath, result>>
    /\ UNCHANGED fsLog
    /\ ResolveFrame

\* ---- handleRequest -------------------------------------------------------
\* this.sendResponse(res, status, ...): res.writeHead and res.end
sendResponse(status) == responses' = Append(responses, status)

\* a step of handleRequest that does not involve resolveFile
HandlerFrame ==
    /\ UNCHANGED <<req, rpc, fullPath, result, fsLog>>
    /\ UNCHANGED <<scanVars, ruleVars, renderVars, appVars>>

\* requestPath.split('/')[1]
TopPath(path) == IF path.abs /\ path.segs # <<>> THEN path.segs[1] ELSE ""

\* decodeURIComponent(parsedUrl.pathname) throws URIError: the catch block
DecodeFails ==
    /\ hpc = "start" /\ req.malformed
    /\ sendResponse(500)
    /\ hpc' = "done"
    /\ HandlerFrame

\* if (req.method !== 'GET')
MethodNotAllowed ==
    /\ hpc = "start" /\ ~req.malformed
    /\ req.method # "GET"
    /\ sendResponse(405)
    /\ hpc' = "done"
    /\ HandlerFrame

Routed == hpc = "start" /\ ~req.malformed /\ req.method = "GET"

IsHealth(path) == path.abs /\ path.segs \in {<<"health">>, <<"healthz">>}

IsFavicon(path) == path.abs /\ path.segs = <<"favicon.ico">>

\* /health and /healthz
Health ==
    /\ Routed /\ IsHealth(req.path)
    /\ sendResponse(200)
    /\ hpc' = "done"
    /\ HandlerFrame

\* /favicon.ico
Favicon ==
    /\ Routed /\ IsFavicon(req.path)
    /\ sendResponse(204)
    /\ hpc' = "done"
    /\ HandlerFrame

IsProxied(path) == env.NODE_ENV = "local" /\ TopPath(path) \in {"js", "public"}

\* NODE_ENV local, /js or /public: http.get is issued and the handler returns
Proxy ==
    /\ Routed /\ ~IsHealth(req.path) /\ ~IsFavicon(req.path)
    /\ IsProxied(req.path)
    /\ hpc' = "proxy"
    /\ UNCHANGED responses
    /\ HandlerFrame

\* innerRes.on('end')
ProxyEnd ==
    /\ hpc = "proxy"
    /\ sendResponse(200)
    /\ hpc' = "done"
    /\ HandlerFrame

\* http.get(...).on('error')
ProxyError ==
    /\ hpc = "proxy"
    /\ sendResponse(500)
    /\ hpc' = "done"
    /\ HandlerFrame

\* the inner response is cut off after its headers: neither 'end' nor the
\* 'error' of the request is emitted
ProxyAborted ==
    /\ hpc = "proxy"
    /\ hpc' = "abandoned"
    /\ UNCHANGED responses
    /\ HandlerFrame

\* const result = await resolveFile(requestPath, basePath): the call
CallResolveFile ==
    /\ Routed /\ ~IsHealth(req.path) /\ ~IsFavicon(req.path)
    /\ ~IsProxied(req.path)
    /\ hpc' = "await"
    /\ rpc' = "start"
    /\ UNCHANGED <<req, fullPath, result, fsLog, responses>>
    /\ UNCHANGED <<scanVars, ruleVars, renderVars, appVars>>

\* the promise of resolveFile has resolved: this.sendResponse(res, status, ..)
Respond ==
    /\ hpc = "await" /\ rpc = "resolved"
    /\ sendResponse(result)
    /\ hpc' = "done"
    /\ HandlerFrame

\* ---- inputs ------------------------------------------------------------
Abs(segs) == [abs |-> TRUE, segs |-> segs]

Rel(segs) == [abs |-> FALSE, segs |-> segs]

RequestPaths ==
    { Abs(<<"health">>), Abs(<<"healthz">>), Abs(<<"favicon.ico">>),
      Abs(<<"public", "a">>), Abs(<<"js", "a">>),
      Abs(<<>>), Abs(<<"a">>), Abs(<<"d">>), Abs(<<"x.html">>),
      Abs(<<"d", "x.html">>), Abs(<<".", "a">>),
      Abs(<<"..", "a">>), Abs(<<"a", "..", "..", "x.html">>),
      Abs(<<"a..b">>), Abs(<<"d", "a..b", "..">>),
      Rel(<<"..", "a">>), Rel(<<"a", "..", "..">>), Rel(<<"a">>) }

Requests ==
    { [method |-> mth, path |-> pth, malformed |-> mal] :
        mth \in {"GET", "POST", "HEAD"}, pth \in RequestPaths,
        mal \in BOOLEAN }

\* a request arrives at a server whose module state is as loaded
ServerInit ==
    /\ req \in Requests
    /\ env \in {e \in Envs : e.DEBUG = "false"}
    /\ hpc = "start"
    /\ rpc = "idle"
    /\ fullPath = <<>>
    /\ result = 0
    /\ responses = <<>>
    /\ fsLog = {}
    /\ options = [k \in {"comment", "issue"} |-> [debug |-> FALSE]]
    /\ debugMode = [k \in {"comment", "issue"} |-> ResolveDebug(options[k], env)]
    /\ html = <<>>
    /\ rendered = 0

InitServer == ServerInit /\ ScanIdle /\ RuleIdle /\ AppIdle

NextServer ==
    \/ DecodeFails
    \/ MethodNotAllowed
    \/ Health
    \/ Favicon
    \/ Proxy
    \/ ProxyEnd
    \/ ProxyError
    \/ ProxyAborted
    \/ CallResolveFile
    \/ ResolveStart
    \/ Stat
    \/ AccessIndexHtml
    \/ AccessIndexMd
    \/ ReadFile
    \/ ReadMarkdown
    \/ Convert
    \/ Respond

SpecServer == InitServer /\ [][NextServer]_vars

(***************************************************************************)
(* Properties of parseTemplateVariables                                    *)
(***************************************************************************)
Scanning == pc = "scan" /\ i < Len(content)

\* the character the next iteration reads
Char == content[i + 1]

\* the number of consecutive backslashes that end at position k (1-based)
RECURSIVE BackslashRun(_, _)
BackslashRun(s, k) ==
    IF k >= 1 /\ s[k] = "\\" THEN 1 + BackslashRun(s, k - 1) ELSE 0

\* the character at 1-based position k stands right after an unescaped
\* backslash
AfterUnescapedBackslash(s, k) == BackslashRun(s, k - 1) % 2 = 1

HasPair(s, b) == \E k \in 1..(Len(s) - 1) : s[k] = b /\ s[k + 1] = b

\* the iteration closes a reference (or dies closing it)
Closes == Scanning /\ phase # outside /\ (phase' = outside \/ pc' = "threw")

\* what C1 says a closing iteration appends, before trimming
C1_Value ==
    LET n == Trim(name)
        present == n \in DOMAIN variables /\ ~isNil(variables[n])
    IN  IF present THEN variables[n].str
        ELSE IF phase = insideDefault
             THEN (IF defaultValue = null THEN <<>> ELSE defaultValue)
        ELSE SpanOpen \o n \o SpanClose

\* C1: every closing iteration appends exactly trim(v) to the output, v being
\* the table entry of the trimmed name if present and not nil, else the
\* default if the reference had a |, else the failed-substitution span.
C1_ResolutionOrder ==
    [][Closes => (pc' = "scan" /\ output' = output \o Trim(C1_Value))]_vars

\* the input with \{ \} \\ replaced by their second character
RECURSIVE C2_DeEscaped(_)
C2_DeEscaped(s) ==
    IF s = <<>> THEN <<>>
    ELSE IF Head(s) = "\\" /\ Len(s) >= 2 /\ s[2] \in {"{", "}", "\\"}
         THEN <<s[2]>> \o C2_DeEscaped(SubSeq(s, 3, Len(s)))
    ELSE <<Head(s)>> \o C2_DeEscaped(Tail(s))

\* C2: an input without {{ and without }} is returned unchanged but for the
\* de-escaping of \{ \} \\ ; every single brace of the input is in the output.
C2_PassThrough ==
    (pc = "returned" /\ ~HasPair(content, "{") /\ ~HasPair(content, "}"))
        => output = C2_DeEscaped(content)

\* C3: the call never throws, whatever names the content references.
C3_Total == pc # "threw"

\* the loop state when the index reaches k (or passes it, or the call threw)
RECURSIVE RunUntil(_, _, _, _)
RunUntil(st, c, tbl, k) ==
    IF st.threw \/ st.i >= k \/ st.i >= Len(c) THEN st
    ELSE RunUntil(Iteration(st, c, tbl), c, tbl, k)

Before(k) == RunUntil(ScanStart, content, variables, k)

\* the iteration at index k reads the second brace of an opening {{
OpensAt(k) ==
    /\ k < Len(content)
    /\ Before(k).i = k
    /\ ~Before(k).threw
    /\ Before(k).phase = outside
    /\ Before(k + 1).phase = insideName

S_EscapedRef == <<"\\", "{", "{", " ", "a", " ", "}", "}">>

\* C5: in phases outside and insideDefault the character after an unescaped
\* backslash is appended as a literal and changes no phase; the first brace of
\* an opening {{ and of a closing }} of a default never stands after an
\* unescaped backslash; and \{{ a }} with a defined yields {{ a }} unsubstituted.
C5_EscapeSuppressesDelimiter ==
    [][ /\ (Scanning /\ phase = outside
              /\ AfterUnescapedBackslash(content, i + 1))
           => (/\ phase' = outside /\ pc' = "scan" /\ lastChar' = <<>>
               /\ output' = output \o <<Char>> /\ calls' = calls)
        /\ (Scanning /\ phase = insideDefault
              /\ AfterUnescapedBackslash(content, i + 1))
           => (/\ phase' = insideDefault /\ pc' = "scan" /\ lastChar' = <<>>
               /\ defaultValue' =
                    (IF defaultValue = null THEN <<>> ELSE defaultValue)
                        \o <<Char>>
               /\ output' = output /\ calls' = calls)
        /\ (Scanning /\ phase = outside /\ phase' = insideName)
           => (/\ i >= 1 /\ content[i] = "{" /\ Char = "{"
               /\ ~AfterUnescapedBackslash(content, i))
        /\ (Scanning /\ phase = insideDefault /\ Closes)
           => (/\ content[i] = "}" /\ Char = "}"
               /\ ~AfterUnescapedBackslash(content, i))
        /\ (pc' = "returned" /\ content = S_EscapedRef)
           => (output' = Tail(S_EscapedRef) /\ calls' = 0)
      ]_vars

C5_Witness ==
    /\ pc = "returned" /\ content = S_EscapedRef
    /\ S_a \in DOMAIN variables /\ variables[S_a].type = "string"
    /\ output = <<"{", "{", " ", "a", " ", "}", "}">>

\* C6: a second pass over the output of a pass returns it unchanged.
C6_Idempotent ==
    pc = "returned"
        => LET again == parseTemplateVariables(output, variables)
           IN  ~again.threw /\ again.output = output

(***************************************************************************)
(* Properties of the inline rules                                          *)
(***************************************************************************)
KeywordRules == {"comment", "issue", "status"}

\* the literal text that opens the directive of each keyword rule
Opening(k) ==
    CASE k = "comment" ->
            <<"$", "{", "c", "o", "m", "m", "e", "n", "t", " ">>
      [] k = "issue" -> <<"$", "{", "i", "s", "s", "u", "e", " ">>
      [] k = "status" -> <<"$", "{", "s", "t", "a", "t", "u", "s", " ">>

\* the text pre stands in s from 0-based index p on
StartsWith(s, p, pre) ==
    /\ p + Len(pre) <= Len(s)
    /\ \A k \in 1..Len(pre) : s[p + k] = pre[k]

\* the opening of rule k begins at p and lies wholly below posMax
OpeningAt(k, p) ==
    StartsWith(src, p, Opening(k)) /\ p + Len(Opening(k)) <= posMax

\* the 0-based index j holds a } that may close the directive of rule k
ClosesAt(k, j) ==
    src[j + 1] = "}" /\ (k = "status" => src[j] # "\\")

\* C7: an invocation that returned false left state.pos where it was; one that
\* returned true left it right after the closing } of a span that starts at
\* the entry position, strictly further on and not beyond posMax.
C7_PositionDiscipline ==
    rule # "none"
        => IF ret
           THEN /\ pos > entryPos
                /\ pos <= posMax
                /\ src[pos] = "}"
                /\ StartsWith(src, entryPos, <<"$", "{">>)
           ELSE pos = entryPos

C7_Witness ==
    /\ rule = "status" /\ ret
    /\ entryPos = 1
    /\ \E j \in (entryPos + 1)..(pos - 1) : src[j] = "}"

\* the directive of rule k opens at p and no } below posMax closes it
UnterminatedAt(k, p) ==
    /\ OpeningAt(k, p)
    /\ \A j \in (p + Len(Opening(k)))..(posMax - 1) : ~ClosesAt(k, j)

\* C8: offered an unterminated directive of its keyword, a rule returns false,
\* pushes no token and leaves state.pos unchanged.
C8_UnterminatedDeclined ==
    [][\A k \in KeywordRules :
          (rule' = k /\ UnterminatedAt(k, pos))
              => (ret' = FALSE /\ pos' = pos /\ tokens' = tokens)]_vars

C8_Witness ==
    /\ rule = "comment" /\ ~ret
    /\ UnterminatedAt("comment", entryPos)
    /\ posMax < Len(src) /\ src[posMax + 1] = "}"

\* C9: a keyword rule matches only when its own opening begins at state.pos
\* and lies wholly below posMax; otherwise it declines and consumes nothing.
C9_KeywordExact ==
    [][\A k \in KeywordRules :
          (rule' = k /\ ~OpeningAt(k, pos))
              => (ret' = FALSE /\ pos' = pos /\ tokens' = tokens)]_vars

C9_Witness ==
    /\ rule = "comment" /\ ~ret /\ pos = entryPos
    /\ OpeningAt("issue", entryPos)
    /\ \E j \in (entryPos + Len(Opening("issue")))..(posMax - 1) :
            src[j + 1] = "}"

\* the longest prefix of s without a space
RECURSIVE NonSpaceRun(_)
NonSpaceRun(s) ==
    IF s = <<>> \/ Head(s) = " " THEN <<>>
    ELSE <<Head(s)>> \o NonSpaceRun(Tail(s))

\* author and message of a trimmed body B, as C10 words them
C10_Author(B) ==
    IF B # <<>> /\ Head(B) = "@" THEN NonSpaceRun(Tail(B)) ELSE <<>>

C10_Message(B) ==
    IF B # <<>> /\ Head(B) = "@"
    THEN Trim(SubSeq(B, 2 + Len(C10_Author(B)), Len(B)))
    ELSE B

S_fix_this == <<"f", "i", "x", " ", "t", "h", "i", "s">>

S_text_with_no_author ==
    <<"t", "e", "x", "t", " ", "w", "i", "t", "h", " ", "n", "o", " ",
      "a", "u", "t", "h", "o", "r">>

\* C10: the token of a matched comment or issue directive carries the author
\* (the non-space run after a leading @, else none) and the message (the
\* trimmed rest, or the whole trimmed body when there is no leading @).
C10_AuthorMessage ==
    [][\A k \in {"comment", "issue"} :
          (rule' = k /\ ret' /\ ~silent')
              => LET B == Trim(SubSeq(src, pos + Len(Opening(k)) + 1,
                                      pos' - 1))
                     token == tokens'[Len(tokens')]
                 IN  /\ Len(tokens') = Len(tokens) + 1
                     /\ token.type = k
                     /\ token.author = C10_Author(B)
                     /\ token.content = C10_Message(B)
                     /\ (src = S_CommentJd /\ pos = 0)
                            => (token.author = <<"j", "d">>
                                /\ token.content = S_fix_this)
                     /\ (src = S_IssueNoAuthor /\ pos = 0)
                            => (token.author = <<>>
                                /\ token.content = S_text_with_no_author)
      ]_vars

C10_Witness ==
    /\ rule = "issue" /\ ret /\ ~silent
    /\ Len(tokens) = 1
    /\ tokens[1].author = <<"a">>
    /\ tokens[1].content = <<"a">>

(***************************************************************************)
(* Properties of rendering                                                 *)
(***************************************************************************)
\* the token the renderer is about to consume
NextToken == tokens[rendered + 1]

Rendering == pos >= posMax /\ rendered < Len(tokens)

\* the HTML-escaped form of a text
C11_Escaped(s) ==
    [k \in 1..Len(s) |->
        IF s[k] = "&" THEN "&amp;"
        ELSE IF s[k] = "<" THEN "&lt;"
        ELSE IF s[k] = ">" THEN "&gt;"
        ELSE IF s[k] = "\"" THEN "&quot;"
        ELSE s[k]]

\* <div class="KEYWORD">
C11_DivOpen(k) ==
    IF k = "comment"
    THEN <<"<div class=\"", "c", "o", "m", "m", "e", "n", "t", "\">">>
    ELSE <<"<div class=\"", "i", "s", "s", "u", "e", "\">">>

C11_Markup(tok) ==
    C11_DivOpen(tok.type)
        \o (IF tok.author = <<>> THEN <<>>
            ELSE <<"<span class=\"author\">@">> \o tok.author \o <<" </span>">>)
        \o (IF tok.content = <<>> THEN <<>>
            ELSE <<"<span class=\"message\">">> \o C11_Escaped(tok.content)
                     \o <<"</span>">>)
        \o <<"</div>">>

\* C11: the renderer of a comment or issue token returns the empty string
\* when the plugin's debug flag is off, and when it is on returns
\* <div class="KEYWORD">, an author span if the author is non-empty, a
\* message span holding the HTML-escaped content if the content is
\* non-empty, and </div>.
C11_RenderingPolicy ==
    [][ (Rendering /\ rendered' # rendered
           /\ NextToken.type \in {"comment", "issue"})
            => /\ rendered' = rendered + 1
               /\ html' = html \o (IF debugMode[NextToken.type]
                                   THEN C11_Markup(NextToken)
                                   ELSE <<>>) ]_vars

Has(s, piece) == \E k \in 1..Len(s) : s[k] = piece

\* a comment with author and escaped message was rendered with the flag on,
\* an issue with the flag off
C11_Witness ==
    /\ rendered = Len(tokens) /\ rendered = 2
    /\ debugMode["comment"] /\ ~debugMode["issue"]
    /\ tokens[1].type = "comment" /\ tokens[2].type = "issue"
    /\ Has(html, "<span class=\"author\">@")
    /\ Has(html, "&lt;") /\ Has(html, "&quot;")
    /\ html[Len(html)] = "</div>"
    /\ ~Has(html, "&gt;")

\* C12: whenever the breadcrumbs rule matches ${breadcrumbs} the rendered
\* output for the span is <div id="breadcrumbs"></div>, whatever the debug
\* flags are: the match leads to an invocation of the breadcrumbs renderer,
\* so once the token stream is rendered the output ends with that div (the
\* literal is the end of its segment).
C12_BreadcrumbsRendered ==
    (rule = "breadcrumbs" /\ ret /\ ~silent /\ rendered = Len(tokens))
        => /\ html # <<>>
           /\ html[Len(html)] = "<div id=\"breadcrumbs\"></div>"

(***************************************************************************)
(* Properties of the breadcrumbs and status rules                          *)
(***************************************************************************)
C13_Literal ==
    <<"$", "{", "b", "r", "e", "a", "d", "c", "r", "u", "m", "b", "s", "}">>

\* C13: the breadcrumbs rule matches if and only if the 14 characters that
\* start at state.pos are exactly ${breadcrumbs} and state.pos + 14 equals
\* posMax; with trailing content, or with the literal cut by posMax, it
\* declines and state.pos stays where it was.
C13_BreadcrumbsExact ==
    [][ rule' = "breadcrumbs"
            => /\ ret' <=> (StartsWith(src, pos, C13_Literal)
                              /\ pos + 14 = posMax)
               /\ ~ret' => pos' = pos ]_vars

\* the literal stands at the entry position, followed by more of the
\* segment, and the rule declined
C13_Witness ==
    /\ rule = "breadcrumbs" /\ ~ret
    /\ StartsWith(src, entryPos, C13_Literal)
    /\ entryPos + 14 < posMax
    /\ pos = entryPos

\* C14: a matched ${status ...} contributes nothing to the rendered output in
\* any mode: the match consumes the span up to its closing }, pushes no token
\* and emits nothing, no token of the stream is a status token, and the
\* status renderer returns the empty string for the body of the span.
C14_StatusContributesNothing ==
    [][ (rule' = "status" /\ ret' /\ pos' # pos)
            => /\ tokens' = tokens
               /\ html' = html
               /\ pos' > pos + 9 /\ src[pos'] = "}"
               /\ \A k \in 1..Len(tokens') : tokens'[k].type # "status"
               /\ statusRenderer([type |-> "status",
                                  content |-> SubSeq(src, pos + 10, pos' - 1),
                                  author |-> <<>>]) = <<>> ]_vars

\* text, a status directive with an escaped brace, text: rendered with the
\* comment plugin in debug mode, only the two texts appear
C14_Witness ==
    /\ debugMode["comment"] /\ debugMode["issue"]
    /\ rendered = Len(tokens) /\ pos = posMax
    /\ StartsWith(src, 2, Opening("status"))
    /\ html = <<"a", "&lt;", "&amp;">>

(***************************************************************************)
(* Further properties of parseTemplateVariables                            *)
(***************************************************************************)
IsPrefix(a, b) == Len(a) <= Len(b) /\ SubSeq(b, 1, Len(a)) = a

\* the text the pending character belongs to: the output, or the default
C15_Target(ph, out, dv) ==
    IF ph = outside THEN out ELSE IF dv = null THEN <<>> ELSE dv

\* C15: the pending-character buffer never loses a character: in the phases
\* outside and insideDefault a pending { or } is either consumed by the next
\* character as the first half of a doubled delimiter, or appended as a
\* literal to the output (outside) or to the default (insideDefault) by the
\* step that overwrites it or ends the scan, whatever the next character is.
C15_PendingNeverLost ==
    [][ (pc = "scan" /\ phase \in {outside, insideDefault}
           /\ lastChar \in {<<"{">>, <<"}">>})
            => \/ i < Len(content) /\ <<Char>> = lastChar
               \/ IsPrefix(C15_Target(phase, output, defaultValue) \o lastChar,
                           C15_Target(phase, output', defaultValue')) ]_vars

\* what a reference without default resolves to: the table entry of the
\* name if present and not nil, else the failed-substitution span
C16_Resolved(n) ==
    IF n \in DOMAIN variables /\ ~isNil(variables[n])
    THEN variables[n].str
    ELSE SpanOpen \o n \o SpanClose

\* C16: in insideName a } looks at exactly the next character: if that is }
\* the reference closes with no default, the trimmed name is resolved and the
\* scan resumes outside at the character after the second }; otherwise (also
\* at the end of the input) the } is appended to the name.  Nothing is an
\* escape in insideName: a backslash is appended to the name like any other
\* character, and a | starts the default whatever precedes it.
C16_NameClosing ==
    [][ (Scanning /\ phase = insideName)
            => IF Char = "}" /\ i + 1 < Len(content) /\ content[i + 2] = "}"
               THEN /\ pc' = "scan" /\ phase' = outside /\ i' = i + 2
                    /\ calls' = calls + 1
                    /\ output' = output \o Trim(C16_Resolved(Trim(name)))
                    /\ lastChar' = <<>>
               ELSE IF Char = "|"
               THEN /\ pc' = "scan" /\ phase' = insideDefault /\ i' = i + 1
                    /\ name' = Trim(name) /\ output' = output
               ELSE /\ pc' = "scan" /\ phase' = insideName /\ i' = i + 1
                    /\ name' = name \o <<Char>> /\ output' = output ]_vars

\* the name has no usable entry in the variable table
C17_Absent(n) == n \notin DOMAIN variables \/ isNil(variables[n])

\* the iteration reads the second } of a reference whose default is empty
C17_ClosesEmptyDefault ==
    /\ Scanning /\ phase = insideDefault
    /\ lastChar = <<"}">> /\ Char = "}"
    /\ defaultValue \in {null, <<>>}

\* the iteration reads the first } of a }} that closes a reference without |
C17_ClosesNoDefault ==
    /\ Scanning /\ phase = insideName
    /\ Char = "}" /\ i + 1 < Len(content) /\ content[i + 2] = "}"

\* C17: {{ name |}} has the empty string as its default, not "no default":
\* for a name absent from the variable table it contributes the empty string,
\* with no failed-substitution span and no warning, whereas {{ name }}
\* contributes the failed-substitution span of the trimmed name.
C17_EmptyDefault ==
    [][ /\ (C17_ClosesEmptyDefault /\ C17_Absent(name))
            => /\ pc' = "scan" /\ phase' = outside
               /\ output' = output /\ warned' = warned
        /\ (C17_ClosesNoDefault /\ C17_Absent(Trim(name)))
            => /\ pc' = "scan" /\ phase' = outside
               /\ output' = output \o SpanOpen \o Trim(name) \o SpanClose
               /\ warned' = Append(warned, Trim(name)) ]_vars

(***************************************************************************)
(* Further properties of the keyword rules                                 *)
(***************************************************************************)
\* C18: the status rule skips every } whose preceding character is a
\* backslash and ends the body at the first } not preceded by one; the
\* comment and issue rules end the body at the first } after the opening
\* even when a backslash precedes it: offered  a\} a}  as body they end the
\* span at the first } and the content is  a\ .
C18_ClosingBrace ==
    [][\A k \in KeywordRules :
          (rule' = k /\ ret')
              => LET first == pos + Len(Opening(k)) IN
                 /\ pos' - 1 >= first
                 /\ ClosesAt(k, pos' - 1)
                 /\ \A j \in first..(pos' - 2) : ~ClosesAt(k, j)
                 /\ (k # "status" /\ ~silent'
                       /\ StartsWith(src, first, <<"a", "\\", "}">>))
                        => /\ pos' = first + 3
                           /\ tokens'[Len(tokens')].content = <<"a", "\\">>
                           /\ tokens'[Len(tokens')].author = <<>> ]_vars

\* the comment rule ended its span at a } that follows a backslash, with
\* another } further on
C18_Witness ==
    /\ rule = "comment" /\ ret /\ ~silent
    /\ src[pos - 1] = "\\"
    /\ tokens[Len(tokens)].content = <<"a", "\\">>
    /\ \E j \in (pos + 1)..posMax : src[j] = "}"

(***************************************************************************)
(* Properties of token emission                                            *)
(***************************************************************************)
\* the step is an invocation of the rule of keyword k
C19_Invokes(k) == rule' = k /\ entryPos' = pos /\ rendered' = rendered

\* C19: an invocation of the comment or issue rule that matches in
\* non-silent mode pushes exactly one token, whose type is the keyword and
\* which carries the parsed message as content and the parsed author; an
\* invocation that declines pushes none; and the renderer consumes the
\* stream one token at a time, each token once, through the renderer
\* registered under the token's keyword.
C19_TokenEmission ==
    [][ /\ \A k \in {"comment", "issue"} :
             C19_Invokes(k)
                 => IF ret' /\ ~silent'
                    THEN LET B == Trim(SubSeq(src, pos + Len(Opening(k)) + 1,
                                              pos' - 1))
                         IN  tokens' = Append(tokens,
                                              [type |-> k,
                                               content |-> C10_Message(B),
                                               author |-> C10_Author(B)])
                    ELSE ~ret' => tokens' = tokens
        /\ rendered' \in {rendered, rendered + 1}
        /\ rendered' <= Len(tokens')
        /\ rendered' = rendered + 1
               => /\ tokens' = tokens
                  /\ NextToken.type \in {"comment", "issue"}
                        => html' = html \o (IF debugMode[NextToken.type]
                                            THEN C11_Markup(NextToken)
                                            ELSE <<>>) ]_vars

\* ${comment @jd fix this}${issue text with no author}: two tokens pushed,
\* both rendered
C19_Witness ==
    /\ Len(tokens) = 2 /\ rendered = 2
    /\ tokens[1] = [type |-> "comment", content |-> S_fix_this,
                    author |-> <<"j", "d">>]
    /\ tokens[2] = [type |-> "issue", content |-> S_text_with_no_author,
                    author |-> <<>>]
    /\ debugMode["comment"] /\ debugMode["issue"]
    /\ Cardinality({k \in 1..Len(html) : html[k] = "</div>"}) = 2

(***************************************************************************)
(* Termination                                                             *)
(***************************************************************************)
\* one pass through the body of the closing-brace search of rule k
C20_LoopBody(k, start, p) ==
    IF k = "status" THEN statusLoopBody(src, start, p)
    ELSE commentLoopBody(src, p)

\* the number of passes the search of rule k makes from p on
RECURSIVE C20_Passes(_, _, _)
C20_Passes(k, start, p) ==
    IF p >= posMax THEN 0
    ELSE IF C20_LoopBody(k, start, p).foundEnd THEN 1
    ELSE 1 + C20_Passes(k, start, C20_LoopBody(k, start, p).pos)

\* C20: every scan ends within a number of steps bounded by the length of its
\* input.  An iteration of the loop of parseTemplateVariables that completes
\* advances the index by at least one, in every phase, never beyond the end
\* of the content, and the loop has ended once the index is at the end.  The
\* closing-brace search of the comment, issue and status rules advances its
\* position by exactly one in every pass that does not find the end (also
\* when status skips an escaped brace), so it makes at most posMax - p passes
\* from p and a matching rule stops at or below posMax.
C20_BoundedScans ==
    [][ /\ Scanning
            => \/ pc' = "threw"
               \/ /\ pc' = "scan"
                  /\ i' \in {i + 1, i + 2} /\ i' <= Len(content)
        /\ (pc = "scan" /\ ~Scanning) => pc' = "returned"
        /\ \A k \in KeywordRules :
              (rule' = k /\ OpeningAt(k, pos))
                  => LET first == pos + Len(Opening(k)) IN
                     /\ \A p \in first..(posMax - 1) :
                           \/ C20_LoopBody(k, pos, p).foundEnd
                           \/ C20_LoopBody(k, pos, p).pos = p + 1
                     /\ C20_Passes(k, pos, first) <= posMax - first
                     /\ pos' <= posMax ]_vars

\* the status search skipped an escaped brace and ran to posMax without
\* finding the end
C20_Witness ==
    /\ rule = "status" /\ ~ret
    /\ OpeningAt("status", entryPos)
    /\ \E j \in (entryPos + 10)..posMax : src[j] = "}" /\ src[j - 1] = "\\"
    /\ entryPos + 12 <= posMax

(***************************************************************************)
(* Properties of successive calls and of the template configuration        *)
(***************************************************************************)
CallEnded == pc \in {"returned", "threw"}

\* C21: the scanner keeps no state across calls: a call that has ended has
\* the outcome (the returned string, or the exception) of every earlier call
\* with the same content and the same variable table, whatever calls were
\* made in between, also calls that ended inside an unterminated {{ or with
\* a pending brace or backslash.
C21_NoStateAcrossCalls ==
    CallEnded
        => \A k \in 1..Len(history) :
              (history[k].content = content
                  /\ history[k].variables = variables)
                  => /\ history[k].pc = pc
                     /\ history[k].output = output

\* {{title}}, then a call that ended inside {{a| , then {{title}} again
C21_Witness ==
    /\ pc = "returned" /\ Len(history) = 2
    /\ content = <<"{", "{">> \o S_title \o <<"}", "}">>
    /\ history[1].content = content /\ history[1].variables = variables
    /\ history[2].content = <<"{", "{", "a", "|">>
    /\ output = <<"D", "o", "c", "u", "m", "e", "n", "t">>

(***************************************************************************)
(* Properties of the debug flag                                            *)
(***************************************************************************)
C22_FlagAtRegistration(k) ==
    options[k].debug \/ env.DEBUG = "true" \/ env.NODE_ENV = "development"

\* C22: the debug flag of a comment or issue plugin is resolved once, at
\* registration, and never again: when the plugins have been registered the
\* flag of each is what the options and the environment say at that moment;
\* from then on no step changes it, however the options object and the
\* environment (DEBUG, NODE_ENV) change, and every rendering of a token by
\* the plugin is the rendering under that flag.
C22_ResolvedOnce ==
    /\ \A k \in {"comment", "issue"} : debugMode[k] = C22_FlagAtRegistration(k)
    /\ [][ /\ debugMode' = debugMode
           /\ (rendered' = rendered + 1
                 /\ NextToken.type \in {"comment", "issue"})
                  => html' = html \o (IF debugMode[NextToken.type]
                                      THEN C11_Markup(NextToken)
                                      ELSE <<>>) ]_vars

\* a comment was rendered after the environment and the options had come to
\* say the opposite of the registered flag
C22_Witness ==
    /\ rendered > 0 /\ tokens[1].type = "comment"
    /\ debugMode["comment"] /\ ~C22_FlagAtRegistration("comment")
    /\ html # <<>> /\ html[Len(html)] = "</div>"

\* C23: parseTemplateVariables never mutates the variable table: from its
\* entry to its return or exception, every step leaves templateConfig and
\* templateConfig.variables with the keys and values they had.
C23_TableNotMutated ==
    [][ pc = "scan"
            => /\ templateConfig' = templateConfig
               /\ variables' = variables
               /\ variables' = templateConfig'["variables"] ]_vars

\* {{a|b}} was resolved through its default, a is still no key of the table
C23_Witness ==
    /\ pc = "returned" /\ calls = 1 /\ updates > 0
    /\ content = <<"{", "{", "a", "|", "b", "}", "}">>
    /\ output = <<"b">>
    /\ S_a \notin DOMAIN templateConfig["variables"]

S_TitleReference == <<"{", "{", "t", "i", "t", "l", "e", "}", "}">>

\* C24: template configuration updates do not accumulate: before any update
\* the configuration is the default one; after any sequence of updates it has
\* the keys of the default and of the last argument alone, with the last
\* argument's value for each of its keys and the default's value otherwise;
\* an argument with a variables key replaces the whole default table, so a
\* call made under it no longer resolves a default variable missing from it.
C24_NoAccumulation ==
    /\ updates = 0 => getTemplateConfig = defaultTemplateConfig
    /\ updates > 0
          => /\ DOMAIN getTemplateConfig = {"variables"} \cup DOMAIN lastConfig
             /\ \A k \in DOMAIN lastConfig : getTemplateConfig[k] = lastConfig[k]
             /\ "variables" \notin DOMAIN lastConfig
                   => getTemplateConfig["variables"]
                          = defaultTemplateConfig["variables"]
    /\ (pc = "returned" /\ content = S_TitleReference
          /\ <<"t", "i", "t", "l", "e">> \notin DOMAIN variables)
          => output = <<"<span class='failed-substitution'>",
                        "t", "i", "t", "l", "e", "</span>">>

\* {{title}} gave Document, then two updates, the last with a table that has
\* no title, then {{title}} gave the failed-substitution span
C24_Witness ==
    /\ updates = 2 /\ "variables" \in DOMAIN lastConfig
    /\ pc = "returned" /\ content = S_TitleReference
    /\ Len(output) = 7
    /\ Len(history) = 1 /\ history[1].content = S_TitleReference
    /\ history[1].output = <<"D", "o", "c", "u", "m", "e", "n", "t">>

(***************************************************************************)
(* Claims on MDServer.handleRequest and resolveFile                        *)
(***************************************************************************)
\* the status the request is to be answered with: 500 when handling throws
\* (the path cannot be decoded), 405 for a method other than GET, 200 for
\* the health paths, 204 for the favicon, else the status of resolveFile
C25_Status ==
    IF req.malformed THEN 500
    ELSE IF req.method # "GET" THEN 405
    ELSE IF req.path = [abs |-> TRUE, segs |-> <<"health">>]
            \/ req.path = [abs |-> TRUE, segs |-> <<"healthz">>] THEN 200
    ELSE IF req.path = [abs |-> TRUE, segs |-> <<"favicon.ico">>] THEN 204
    ELSE result

\* handling can go no further: the handler has answered, or waits on
\* something that will never call back
C25_Over ==
    \/ hpc \in {"done", "abandoned"}
    \/ hpc = "await" /\ rpc = "pending"

\* C25: every request passed to handleRequest receives exactly one
\* response: never two, and when handling is over exactly one, with status
\* 405 for a method other than GET (and then no file was accessed), 200 for
\* /health and /healthz, 204 for /favicon.ico, otherwise the status that
\* resolveFile returned, or 500 when handling throws.
C25_ExactlyOneResponse ==
    /\ Len(responses) <= 1
    /\ C25_Over => Len(responses) = 1 /\ responses[1] = C25_Status
    /\ req.method # "GET" => fsLog = {}

\* the segments of the normalized request path have two dots in a row
C26_Traversal ==
    \E k \in 1..Len(normalize(req.path).segs) :
        normalize(req.path).segs[k] \in {"..", "a..b"}

\* C26: resolveFile never stats or reads a path outside basePath and never
\* rejects: a request path whose normalized form contains .. is answered
\* with 403 before any file system access, and for every request path and
\* every file system outcome the returned promise resolves, with a status
\* in {200, 403, 404, 500}.
C26_ResolveFileSafe ==
    /\ \A p \in fsLog :
          Len(p) >= Len(basePath) /\ SubSeq(p, 1, Len(basePath)) = basePath
    /\ C26_Traversal /\ rpc \notin {"idle", "start"} =>
          rpc = "resolved" /\ result = 403 /\ fsLog = {}
    /\ rpc = "resolved" => result \in {200, 403, 404, 500}
    /\ rpc # "pending"

====
